---- MODULE Spec2Model ----
(***************************************************************************)
(* Model of sendRequest (raw HTTP request transmitter) and of the header   *)
(* codec.  One exchange is modelled: the synchronous body of sendRequest,  *)
(* then the callbacks it registered on the request, the response and the   *)
(* abort signal, fired by the transport in the orders node's http module   *)
(* can produce.                                                            *)
(***************************************************************************)
EXTENDS Integers, Sequences, FiniteSets, TLC

\* ------------------------------------------------------------------ bounds
MaxHeaders == 2     \* longest header list of a request definition
MaxChunks  == 2     \* most 'data' chunks the transport delivers
MaxFlat    == 3     \* longest flat [k, v, k, v, ...] list given to the codec

\* ------------------------------------------------------------------ inputs
Schemes == {"http", "https"}
Methods == {"GET", "POST"}

\* [key, value] tuples a caller may list
HeaderPairs ==
    { <<"X-A", "1">>, <<"X-A", "2">>, <<"Connection", "keep-alive">>,
      <<"Content-Length", "1">> }

RECURSIVE SeqsUpTo(_, _)
SeqsUpTo(S, n) ==
    IF n = 0 THEN { <<>> }
    ELSE LET shorter == SeqsUpTo(S, n - 1)
         IN  shorter \cup { Append(s, x) : s \in shorter, x \in S }

\* rawBody?: Uint8Array -- absent, empty, or some bytes
NoBody == [ present |-> FALSE, bytes |-> <<>> ]
Bodies == { NoBody, [ present |-> TRUE, bytes |-> <<>> ], [ present |-> TRUE, bytes |-> <<7>> ] }

\* RequestDefinition { method, url, headers, rawBody? }
RequestDefinitions ==
    [ scheme : Schemes, method : Methods,
      headers : SeqsUpTo(HeaderPairs, MaxHeaders), rawBody : Bodies ]

\* the definitions used where the exchange that follows is explored
ExchangeDefinitions ==
    { d \in RequestDefinitions :
        /\ d.method = "GET"
        /\ d.rawBody = NoBody
        /\ d.headers = << <<"X-A", "1">> >> }

\* options.abortSignal: not given, not yet aborted, already aborted
Signals == {"none", "idle", "aborted"}

Chunks      == {"a", "b"}
StatusCodes == {200, 404}
StatusMessages == {"OK", "Not Found"}
\* response.rawHeaders as the transport hands them over
FlatHeaders == { <<"A", "1">>, <<"A", "1", "a", "2">> }

\* ------------------------------------------------------------ header codec
\* a flatten that loses empty strings
flatten_DropsEmpty(rawHeaders) ==
    LET RECURSIVE Flat(_)
        Flat(h) == IF h = <<>> THEN <<>> ELSE Head(h) \o Flat(Tail(h))
    IN  SelectSeq(Flat(rawHeaders), LAMBDA x : x # "")

\* a flatten that writes each value before its key
flatten_ValueFirst(rawHeaders) ==
    LET RECURSIVE Flat(_)
        Flat(h) == IF h = <<>> THEN <<>>
                   ELSE << Head(h)[2], Head(h)[1] >> \o Flat(Tail(h))
    IN  Flat(rawHeaders)

\* rawHeaders.flat()
RECURSIVE flattenPairedRawHeaders(_)
flattenPairedRawHeaders(rawHeaders) ==
    IF rawHeaders = <<>> THEN <<>>
    ELSE Head(rawHeaders) \o flattenPairedRawHeaders(Tail(rawHeaders))

\* reading past the end of a JS array gives undefined
Undefined == "undefined"
At(arr, i) == IF i < Len(arr) THEN arr[i + 1] ELSE Undefined

\* a loop that stops at i + 1 < length and so loses a trailing key
pair_DropsTrailing(flatRawHeaders) ==
    [ j \in 1 .. (Len(flatRawHeaders) \div 2) |->
        << flatRawHeaders[2 * j - 1], flatRawHeaders[2 * j] >> ]

\* for (i = 0; i < length; i += 2) result[i/2] = [flat[i], flat[i+1]]
pairFlatRawHeaders(flatRawHeaders) ==
    [ j \in 1 .. ((Len(flatRawHeaders) + 1) \div 2) |->
        << At(flatRawHeaders, 2 * (j - 1)), At(flatRawHeaders, 2 * (j - 1) + 1) >> ]

\* ------------------------------------------------------------------- state
VARIABLES
    pc,             \* "idle" before the call, "sent" once sendRequest returned, "threw" if it threw
    requestDefn,    \* the RequestDefinition of the call
    abortSignal,    \* options.abortSignal: "none" (not given), "idle", "aborted"
    transport,      \* the module whose request() was called: "none", "http", "https"
    request,        \* the ClientRequest: removed defaults, stored header block, body, end() calls, torn down
    promise,        \* the promise of lines 110-113: "pending", "resolved", "rejected"
    resultsStream,  \* the Readable: pushed events, state, errors its destroy(error) surfaced
    response,       \* the IncomingMessage: state and the 'data' chunks delivered
    abortedAt,      \* phase of the exchange in which the signal was raised ("none" if not)
    reqErrorAt,     \* phase in which the request emitted 'error' ("none" if not)
    codec,          \* the header codec at work: its inputs, the calls made, their results
    browsers,       \* fresh-chrome's registry: proxyPort -> browser (0: no entry)
    processes,      \* the browser processes launched: port, state, 'exit' listeners
    activations,    \* the activate() calls: port, position, the browser launched
    deactivations   \* the deactivate() calls: port, position, the browser awaited

exchangeVars == << pc, requestDefn, abortSignal, transport, request, promise,
                   resultsStream, response, abortedAt, reqErrorAt >>

chromeVars == << browsers, processes, activations, deactivations >>

vars == << exchangeVars, codec, chromeVars >>

NoDefinition == [ scheme |-> "none", method |-> "none", headers |-> <<>>, rawBody |-> NoBody ]

NoRequest ==
    [ removed |-> {}, header |-> <<>>, stored |-> 0, body |-> <<>>, ended |-> 0,
      calls |-> <<>>, destroyed |-> FALSE, failed |-> FALSE ]

NoStream == [ buffer |-> <<>>, state |-> "none", errors |-> 0 ]

NoResponse ==
    [ state |-> "none", chunks |-> <<>>,
      statusCode |-> 0, statusMessage |-> "", rawHeaders |-> <<>> ]

\* no codec call under way
NoCodec ==
    [ headers |-> <<>>, flat |-> <<>>, done |-> {}, flattened |-> <<>>, paired |-> <<>>,
      repaired |-> <<>>, reflattened |-> <<>> ]

\* proxy ports, and the most activate() and deactivate() calls explored
Ports == {8000, 8001}
MaxActivations  == 2
MaxDeactivations == 2

\* let browsers = {} (line 16); nothing launched, no call made
ChromeInit ==
    /\ browsers = [ port \in Ports |-> 0 ]
    /\ processes = <<>>
    /\ activations = <<>>
    /\ deactivations = <<>>

Init ==
    /\ pc = "idle"
    /\ requestDefn = NoDefinition
    /\ abortSignal = "none"
    /\ transport = "none"
    /\ request = NoRequest
    /\ promise = "none"
    /\ resultsStream = NoStream
    /\ response = NoResponse
    /\ abortedAt = "none"
    /\ reqErrorAt = "none"
    /\ codec = NoCodec
    /\ ChromeInit

\* ------------------------------------------------------- the event stream
\* new stream.Readable({ objectMode: true, read() {} })
NewReadable == [ buffer |-> <<>>, state |-> "open", errors |-> 0 ]

\* a push that does not look at the state of the stream
Push_IgnoresState(s, event) == [ s EXCEPT !.buffer = Append(@, event) ]

\* resultsStream.push(event): accepted while the stream is open; a push after
\* push(null) is ERR_STREAM_PUSH_AFTER_EOF, which errors a stream that is not
\* destroyed yet; a destroyed stream drops it.
Push(s, event) ==
    CASE s.state = "open"  -> [ s EXCEPT !.buffer = Append(@, event) ]
      [] s.state = "ended" -> [ s EXCEPT !.state = "errored", !.errors = @ + 1 ]
      [] OTHER             -> s

\* resultsStream.push(null): end of stream
PushNull(s) == IF s.state = "open" THEN [ s EXCEPT !.state = "ended" ] ELSE s

\* resultsStream.destroy(error): surfaces the error once, unless the stream
\* is already destroyed (by an error, by the consumer, or after its 'end').
Destroy(s) ==
    IF s.state \in {"open", "ended"}
    THEN [ s EXCEPT !.state = "errored", !.errors = @ + 1 ]
    ELSE s

RequestStart     == [ type |-> "request-start" ]
ResponseHead(statusCode, statusMessage, headers) ==
    [ type |-> "response-head", statusCode |-> statusCode, statusMessage |-> statusMessage,
      headers |-> headers ]
ResponseBodyPart(data) == [ type |-> "response-body-part", rawBody |-> data ]
ResponseEnd      == [ type |-> "response-end" ]

\* ------------------------------------------------------------ the request
\* new URL(url).protocol: the scheme followed by ':'
UrlProtocol(d) == d.scheme \o ":"

\* (url.protocol === 'https' ? https : http)
SelectTransport(protocol) == IF protocol = "https" THEN "https" ELSE "http"

\* request() of a module refuses a URL whose protocol is not its own
\* (ERR_INVALID_PROTOCOL)
ExpectedProtocol(t) == IF t = "https" THEN "https:" ELSE "http:"

LowerKey(k) ==
    CASE k = "Connection"        -> "connection"
      [] k = "Content-Length"    -> "content-length"
      [] k = "Transfer-Encoding" -> "transfer-encoding"
      [] OTHER                   -> k

Lists(pairs, name) == \E i \in DOMAIN pairs : LowerKey(pairs[i][1]) = name

\* a removeHeader that leaves the default in place
removeHeader_Noop(req, name) == req

\* request.removeHeader(name)
removeHeader(req, name) == [ req EXCEPT !.removed = @ \cup {name} ]

\* methods for which the transport would frame a body by default
UseChunkedEncodingByDefault(method) == method \notin {"GET"}

\* request._storeHeader(firstLine, flat): the listed headers in order, then
\* the defaults the transport synthesises for those it was not told to drop
\* and the caller did not list.
StoreHeader(req, method, flat) ==
    LET listed == pairFlatRawHeaders(flat)
        connection ==
            IF "connection" \notin req.removed /\ ~Lists(listed, "connection")
            THEN << <<"Connection", "close">> >> ELSE <<>>
        framing ==
            IF \/ Lists(listed, "content-length")
               \/ Lists(listed, "transfer-encoding")
               \/ ~UseChunkedEncodingByDefault(method)
            THEN <<>>
            ELSE IF "content-length" \notin req.removed /\ req.ended > 0
                 THEN << <<"Content-Length", "0">> >>
                 ELSE IF "transfer-encoding" \notin req.removed
                      THEN << <<"Transfer-Encoding", "chunked">> >>
                      ELSE <<>>
    IN  [ req EXCEPT !.header = listed \o connection \o framing, !.stored = @ + 1,
                     !.calls = Append(@, "_storeHeader") ]

\* request.end(body) / request.end()
End(req, body) ==
    [ req EXCEPT !.body = body.bytes, !.ended = @ + 1, !.calls = Append(@, "end(rawBody)") ]
EndNoBody(req) ==
    [ req EXCEPT !.body = <<>>, !.ended = @ + 1, !.calls = Append(@, "end()") ]

\* a length read from a property the body does not have
ByteLength_Undefined(rawBody) == 0

\* requestDefn.rawBody?.byteLength
ByteLength(rawBody) == IF rawBody.present THEN Len(rawBody.bytes) ELSE 0

\* lines 84-97: drop the defaults, store the header block, end the request
WriteRequest(d) ==
    LET r1 == removeHeader(NoRequest, "connection")
        r2 == removeHeader(r1, "transfer-encoding")
        r3 == removeHeader(r2, "content-length")
        r4 == StoreHeader(r3, d.method, flattenPairedRawHeaders(d.headers))
    IN  IF ByteLength(d.rawBody) # 0 THEN End(r4, d.rawBody) ELSE EndNoBody(r4)

\* a sendRequest that leaves request-start to a later callback
SendRequest_NoStart(d, signal) ==
    /\ pc = "idle"
    /\ requestDefn' = d
    /\ abortSignal' = signal
    /\ transport' = SelectTransport(UrlProtocol(d))
    /\ IF ExpectedProtocol(transport') # UrlProtocol(d)
       THEN /\ pc' = "threw"
            /\ UNCHANGED << request, promise, resultsStream, abortedAt >>
       ELSE /\ pc' = "sent"
            /\ request' = [ WriteRequest(d) EXCEPT !.destroyed = (signal = "aborted") ]
            /\ abortedAt' = IF signal = "aborted" THEN "beforeHead" ELSE "none"
            /\ resultsStream' = NewReadable
            /\ promise' = "pending"
    /\ UNCHANGED << response, reqErrorAt >>
    /\ UNCHANGED << codec, chromeVars >>

\* The synchronous body of sendRequest (lines 64-139).  A signal that is
\* already aborted makes request() (line 72) destroy the request at once; the
\* listener of line 75 then never runs.
SendRequest(d, signal) ==
    /\ pc = "idle"
    /\ requestDefn' = d
    /\ abortSignal' = signal
    /\ transport' = SelectTransport(UrlProtocol(d))
    /\ IF ExpectedProtocol(transport') # UrlProtocol(d)
       THEN /\ pc' = "threw"
            /\ UNCHANGED << request, promise, resultsStream, abortedAt >>
       ELSE /\ pc' = "sent"
            /\ request' = [ WriteRequest(d) EXCEPT !.destroyed = (signal = "aborted") ]
            /\ abortedAt' = IF signal = "aborted" THEN "beforeHead" ELSE "none"
            /\ resultsStream' = Push(NewReadable, RequestStart)
            /\ promise' = "pending"
    /\ UNCHANGED << response, reqErrorAt >>
    /\ UNCHANGED << codec, chromeVars >>

\* --------------------------------------------------------- the callbacks
\* how far the exchange has come
Phase ==
    CASE response.state = "none"  -> "beforeHead"
      [] response.state = "open"  -> "afterHead"
      [] response.state = "ended" -> "afterEnd"
      [] OTHER                    -> "afterError"

\* options.abortSignal 'abort' listener (lines 75-78): request.abort()
Abort ==
    /\ pc = "sent"
    /\ abortSignal = "idle"
    /\ abortSignal' = "aborted"
    /\ abortedAt' = Phase
    /\ request' = [ request EXCEPT !.destroyed = TRUE ]
    /\ UNCHANGED << pc, requestDefn, transport, promise, resultsStream, response, reqErrorAt >>
    /\ UNCHANGED << codec, chromeVars >>

\* a catch that tears the request down but forgets the stream
Reject_NoDestroy(req) ==
    /\ promise' = IF promise = "pending" THEN "rejected" ELSE promise
    /\ UNCHANGED resultsStream
    /\ request' = [ req EXCEPT !.destroyed = TRUE ]

\* an 'error' listener that destroys the stream itself instead of rejecting
Reject_Always(req) ==
    /\ promise' = IF promise = "pending" THEN "rejected" ELSE promise
    /\ resultsStream' = Destroy(resultsStream)
    /\ request' = [ req EXCEPT !.destroyed = TRUE ]

\* request 'error' -> reject (line 111) -> .catch (lines 133-136): destroy the
\* stream, then the request req that emitted the error; a settled promise
\* ignores the reject and the catch does not run.
Reject(req) ==
    IF promise = "pending"
    THEN /\ promise' = "rejected"
         /\ resultsStream' = Destroy(resultsStream)
         /\ request' = [ req EXCEPT !.destroyed = TRUE ]
    ELSE /\ UNCHANGED << promise, resultsStream >>
         /\ request' = req

\* The transport fails on its own (connection refused, reset, ...): the
\* request emits 'error' and its socket is gone.
RequestError ==
    /\ pc = "sent"
    /\ reqErrorAt = "none"
    /\ ~request.destroyed
    /\ reqErrorAt' = Phase
    /\ Reject([ request EXCEPT !.failed = TRUE, !.destroyed = TRUE ])
    /\ UNCHANGED << pc, requestDefn, abortSignal, transport, response, abortedAt >>
    /\ UNCHANGED << codec, chromeVars >>

\* The request emits 'error' because it was aborted.
AbortError ==
    /\ pc = "sent"
    /\ reqErrorAt = "none"
    /\ abortSignal = "aborted"
    /\ reqErrorAt' = Phase
    /\ Reject(request)
    /\ UNCHANGED << pc, requestDefn, abortSignal, transport, response, abortedAt >>
    /\ UNCHANGED << codec, chromeVars >>

\* a then-callback that forgets to pair the raw headers
OnResponse_Unpaired(statusCode, statusMessage, rawHeaders) ==
    /\ pc = "sent"
    /\ response.state = "none"
    /\ ~request.destroyed
    /\ promise = "pending"
    /\ promise' = "resolved"
    /\ resultsStream' = Push(resultsStream, ResponseHead(statusCode, statusMessage, rawHeaders))
    /\ response' = [ response EXCEPT !.state = "open", !.statusCode = statusCode,
                                      !.statusMessage = statusMessage,
                                      !.rawHeaders = rawHeaders ]
    /\ UNCHANGED << pc, requestDefn, abortSignal, transport, request, abortedAt, reqErrorAt >>
    /\ UNCHANGED << codec, chromeVars >>

\* request 'response' -> resolve (line 112) -> .then (lines 113-132): push the
\* head, then listen for 'data', 'end' and 'error' on the response.
OnResponse(statusCode, statusMessage, rawHeaders) ==
    /\ pc = "sent"
    /\ response.state = "none"
    /\ ~request.destroyed
    /\ IF promise = "pending"
       THEN /\ promise' = "resolved"
            /\ resultsStream' =
                 Push(resultsStream,
                      ResponseHead(statusCode, statusMessage, pairFlatRawHeaders(rawHeaders)))
            /\ response' = [ response EXCEPT !.state = "open", !.statusCode = statusCode,
                                              !.statusMessage = statusMessage,
                                              !.rawHeaders = rawHeaders ]
       ELSE UNCHANGED << promise, resultsStream, response >>
    /\ UNCHANGED << pc, requestDefn, abortSignal, transport, request, abortedAt, reqErrorAt >>
    /\ UNCHANGED << codec, chromeVars >>

\* a 'data' listener that merges a chunk into the body part before it
OnData_Coalesces(data) ==
    /\ response.state = "open"
    /\ ~request.destroyed
    /\ Len(response.chunks) < MaxChunks
    /\ response' = [ response EXCEPT !.chunks = Append(@, data) ]
    /\ resultsStream' =
         LET n == Len(resultsStream.buffer)
         IN  IF resultsStream.state = "open"
                /\ resultsStream.buffer[n].type = "response-body-part"
             THEN [ resultsStream EXCEPT !.buffer[n].rawBody = @ \o data ]
             ELSE Push(resultsStream, ResponseBodyPart(data))
    /\ UNCHANGED << pc, requestDefn, abortSignal, transport, request, promise, abortedAt, reqErrorAt >>
    /\ UNCHANGED << codec, chromeVars >>

\* response 'data' (lines 122-126); an aborted or failed request delivers no
\* more data.
OnData(data) ==
    /\ response.state = "open"
    /\ ~request.destroyed
    /\ Len(response.chunks) < MaxChunks
    /\ response' = [ response EXCEPT !.chunks = Append(@, data) ]
    /\ resultsStream' = Push(resultsStream, ResponseBodyPart(data))
    /\ UNCHANGED << pc, requestDefn, abortSignal, transport, request, promise, abortedAt, reqErrorAt >>
    /\ UNCHANGED << codec, chromeVars >>

\* an 'end' listener that ends the stream before pushing response-end
OnEnd_EofFirst ==
    /\ response.state = "open"
    /\ ~request.failed
    /\ response' = [ response EXCEPT !.state = "ended" ]
    /\ resultsStream' = Push(PushNull(resultsStream), ResponseEnd)
    /\ UNCHANGED << pc, requestDefn, abortSignal, transport, request, promise, abortedAt, reqErrorAt >>
    /\ UNCHANGED << codec, chromeVars >>

\* response 'end' (lines 128-131).  A message that was complete when abort()
\* landed still ends; after a socket failure the message is cut short.
OnEnd ==
    /\ response.state = "open"
    /\ ~request.failed
    /\ response' = [ response EXCEPT !.state = "ended" ]
    /\ resultsStream' = PushNull(Push(resultsStream, ResponseEnd))
    /\ UNCHANGED << pc, requestDefn, abortSignal, transport, request, promise, abortedAt, reqErrorAt >>
    /\ UNCHANGED << codec, chromeVars >>

\* response 'error' (line 132): the connection closed before the message was
\* complete (premature close, socket failure, abort).
OnResponseError ==
    /\ response.state = "open"
    /\ response' = [ response EXCEPT !.state = "errored" ]
    /\ resultsStream' = Destroy(resultsStream)
    /\ request' = [ request EXCEPT !.destroyed = TRUE ]
    /\ UNCHANGED << pc, requestDefn, abortSignal, transport, promise, abortedAt, reqErrorAt >>
    /\ UNCHANGED << codec, chromeVars >>

\* The transport closes the socket of a finished exchange: the request was
\* stored without keep-alive (line 84).
SocketClose ==
    /\ response.state = "ended"
    /\ ~request.destroyed
    /\ request' = [ request EXCEPT !.destroyed = TRUE ]
    /\ UNCHANGED << pc, requestDefn, abortSignal, transport, promise, resultsStream, response,
                    abortedAt, reqErrorAt >>
    /\ UNCHANGED << codec, chromeVars >>

\* ------------------------------------------------------------ the consumer
\* The consumer of the returned stream destroys it, with or without an error.
ConsumerDestroy(withError) ==
    /\ resultsStream.state \in {"open", "ended"}
    /\ resultsStream' =
         [ resultsStream EXCEPT !.state = IF withError THEN "errored" ELSE "destroyed" ]
    /\ UNCHANGED << pc, requestDefn, abortSignal, transport, request, promise, response,
                    abortedAt, reqErrorAt >>
    /\ UNCHANGED << codec, chromeVars >>

\* The consumer reads the stream to its 'end'; the stream then destroys itself.
ConsumerDrain ==
    /\ resultsStream.state = "ended"
    /\ resultsStream' = [ resultsStream EXCEPT !.state = "closed" ]
    /\ UNCHANGED << pc, requestDefn, abortSignal, transport, request, promise, response,
                    abortedAt, reqErrorAt >>
    /\ UNCHANGED << codec, chromeVars >>

\* ---------------------------------------------------- the codec at work
\* header lists with duplicate keys, an empty value and keys differing in case
CodecPairs == { <<"X-A", "1">>, <<"X-A", "">>, <<"x-a", "1">> }
CodecHeaders == SeqsUpTo(CodecPairs, MaxHeaders)

\* flat lists of even and odd length
FlatStrings == { "X-A", "x-a", "" }
CodecFlats == SeqsUpTo(FlatStrings, MaxFlat)

CodecInit ==
    /\ codec \in { [ NoCodec EXCEPT !.headers = h, !.flat = f ] :
                     h \in CodecHeaders, f \in CodecFlats }
    /\ pc = "idle"
    /\ requestDefn = NoDefinition
    /\ abortSignal = "none"
    /\ transport = "none"
    /\ request = NoRequest
    /\ promise = "none"
    /\ resultsStream = NoStream
    /\ response = NoResponse
    /\ abortedAt = "none"
    /\ reqErrorAt = "none"
    /\ ChromeInit

\* flattenPairedRawHeaders(headers)
FlattenHeaders ==
    /\ "flatten" \notin codec.done
    /\ codec' = [ codec EXCEPT !.flattened = flattenPairedRawHeaders(codec.headers),
                                !.done = @ \cup {"flatten"} ]
    /\ UNCHANGED << exchangeVars, chromeVars >>

\* pairFlatRawHeaders(flat)
PairFlat ==
    /\ "pair" \notin codec.done
    /\ codec' = [ codec EXCEPT !.paired = pairFlatRawHeaders(codec.flat),
                                !.done = @ \cup {"pair"} ]
    /\ UNCHANGED << exchangeVars, chromeVars >>

\* pairFlatRawHeaders(flattenPairedRawHeaders(headers))
PairFlattened ==
    /\ "flatten" \in codec.done
    /\ "pairFlattened" \notin codec.done
    /\ codec' = [ codec EXCEPT !.repaired = pairFlatRawHeaders(codec.flattened),
                                !.done = @ \cup {"pairFlattened"} ]
    /\ UNCHANGED << exchangeVars, chromeVars >>

\* flattenPairedRawHeaders(pairFlatRawHeaders(flat))
FlattenPaired ==
    /\ "pair" \in codec.done
    /\ "flattenPaired" \notin codec.done
    /\ codec' = [ codec EXCEPT !.reflattened = flattenPairedRawHeaders(codec.paired),
                                !.done = @ \cup {"flattenPaired"} ]
    /\ UNCHANGED << exchangeVars, chromeVars >>

CodecNext ==
    \/ FlattenHeaders
    \/ PairFlat
    \/ PairFlattened
    \/ FlattenPaired

CodecSpec == CodecInit /\ [][CodecNext]_vars

\* ------------------------------------------------------------ fresh-chrome
\* browsers[proxyPort] != null && !!browsers[proxyPort].pid, in a given
\* registry; a launched instance keeps its pid when its process exits
IsActiveIn(registry, procs, proxyPort) ==
    /\ registry[proxyPort] # 0
    /\ procs[registry[proxyPort]].pid # 0

\* isActive(proxyPort) (lines 34-36)
isActive(proxyPort) == IsActiveIn(browsers, processes, proxyPort)

Running(procs, b) == procs[b].state \in {"alive", "stopping"}

\* activate(proxyPort) is called (lines 42-43): it returns at once when the
\* port is active, and goes on to its awaits otherwise.
Activate(proxyPort) ==
    /\ Len(activations) < MaxActivations
    /\ activations' =
         Append(activations,
                [ port |-> proxyPort, browser |-> 0,
                  pc |-> IF isActive(proxyPort) THEN "done" ELSE "launching" ])
    /\ UNCHANGED << browsers, processes, deactivations >>
    /\ UNCHANGED << exchangeVars, codec >>

\* await launchBrowser(...) resolves (lines 45-68): a new browser process runs
Launch(a) ==
    /\ a \in DOMAIN activations
    /\ activations[a].pc = "launching"
    /\ processes' =
         Append(processes,
                [ port |-> activations[a].port, pid |-> 1000 + Len(processes) + 1,
                  state |-> "alive", listening |-> FALSE, registered |-> 0 ])
    /\ activations' = [ activations EXCEPT ![a].browser = Len(processes) + 1,
                                            ![a].pc = "launched" ]
    /\ UNCHANGED << browsers, deactivations >>
    /\ UNCHANGED << exchangeVars, codec >>

\* number of registrations made so far
Registrations == Cardinality({ b \in DOMAIN processes : processes[b].registered # 0 })

\* after the warning server is done (lines 70-76): browsers[proxyPort] = browser
\* and browser.process.once('exit', ...); a process that has exited already
\* will not emit 'exit' to the new listener.
Register(a) ==
    /\ a \in DOMAIN activations
    /\ activations[a].pc = "launched"
    /\ LET b == activations[a].browser
       IN  /\ browsers' = [ browsers EXCEPT ![activations[a].port] = b ]
           /\ processes' = [ processes EXCEPT ![b].listening = TRUE,
                                               ![b].registered = Registrations + 1 ]
    /\ activations' = [ activations EXCEPT ![a].pc = "delaying" ]
    /\ UNCHANGED deactivations
    /\ UNCHANGED << exchangeVars, codec >>

\* await delay(500) is over (line 79): activate resolves
Delayed(a) ==
    /\ a \in DOMAIN activations
    /\ activations[a].pc = "delaying"
    /\ activations' = [ activations EXCEPT ![a].pc = "done" ]
    /\ UNCHANGED << browsers, processes, deactivations >>
    /\ UNCHANGED << exchangeVars, codec >>

\* The process of browser b exits, stopped or on its own: the listener of
\* lines 74-76 deletes browsers[proxyPort], whatever browser is entered there,
\* then the deactivate calls awaiting this exit (line 87) resolve.
ProcessExit(b) ==
    /\ b \in DOMAIN processes
    /\ Running(processes, b)
    /\ processes' = [ processes EXCEPT ![b].state = "exited" ]
    /\ browsers' = IF processes[b].listening
                   THEN [ browsers EXCEPT ![processes[b].port] = 0 ]
                   ELSE browsers
    /\ deactivations' =
         [ i \in DOMAIN deactivations |->
             IF deactivations[i].pc = "waiting" /\ deactivations[i].browser = b
             THEN [ deactivations[i] EXCEPT
                      !.pc = "resolved",
                      !.activeAtResolve = IsActiveIn(browsers', processes', deactivations[i].port) ]
             ELSE deactivations[i] ]
    /\ UNCHANGED activations
    /\ UNCHANGED << exchangeVars, codec >>

\* a process that was stopped exits
StoppedExit == \E b \in DOMAIN processes : processes[b].state = "stopping" /\ ProcessExit(b)

\* browser.stop(): a running process is told to exit
Stop(procs, b) ==
    IF procs[b].state = "alive" THEN [ procs EXCEPT ![b].state = "stopping" ] ELSE procs

\* deactivate(proxyPort) up to its await (lines 82-88), on the calls and
\* processes st: an active port's browser is listened to and stopped; for an
\* inactive port the call resolves at once.
DeactivateCall(st, proxyPort) ==
    IF IsActiveIn(browsers, st.processes, proxyPort)
    THEN [ processes |-> Stop(st.processes, browsers[proxyPort]),
           deactivations |->
               Append(st.deactivations,
                      [ port |-> proxyPort, browser |-> browsers[proxyPort],
                        pc |-> "waiting", activeAtResolve |-> FALSE ]) ]
    ELSE [ processes |-> st.processes,
           deactivations |->
               Append(st.deactivations,
                      [ port |-> proxyPort, browser |-> 0,
                        pc |-> "resolved", activeAtResolve |-> FALSE ]) ]

Deactivate(proxyPort) ==
    /\ Len(deactivations) < MaxDeactivations
    /\ LET st == DeactivateCall([ processes |-> processes, deactivations |-> deactivations ],
                                proxyPort)
       IN  /\ processes' = st.processes
           /\ deactivations' = st.deactivations
    /\ UNCHANGED << browsers, activations >>
    /\ UNCHANGED << exchangeVars, codec >>

RECURSIVE DeactivateEach(_, _)
DeactivateEach(st, keys) ==
    IF keys = {} THEN st
    ELSE LET proxyPort == CHOOSE k \in keys : \A other \in keys : k <= other
         IN  DeactivateEach(DeactivateCall(st, proxyPort), keys \ {proxyPort})

\* deactivateAll() (lines 91-95): deactivate every key of the registry
DeactivateAll ==
    LET keys == { port \in Ports : browsers[port] # 0 }
        st == DeactivateEach([ processes |-> processes, deactivations |-> deactivations ], keys)
    IN  /\ keys # {}
        /\ Len(deactivations) + Cardinality(keys) <= MaxDeactivations
        /\ processes' = st.processes
        /\ deactivations' = st.deactivations
        /\ UNCHANGED << browsers, activations >>
        /\ UNCHANGED << exchangeVars, codec >>

ChromeNext ==
    \/ \E proxyPort \in Ports : Activate(proxyPort)
    \/ \E a \in 1 .. MaxActivations : Launch(a)
    \/ \E a \in 1 .. MaxActivations : Register(a)
    \/ \E a \in 1 .. MaxActivations : Delayed(a)
    \/ \E b \in 1 .. MaxActivations : ProcessExit(b)
    \/ \E proxyPort \in Ports : Deactivate(proxyPort)
    \/ DeactivateAll

ChromeSpec == Init /\ [][ChromeNext]_vars

\* a stopped browser process eventually emits 'exit'
ChromeFairSpec == ChromeSpec /\ WF_vars(StoppedExit)

\* --------------------------------------------------------- specifications
Exchange ==
    \/ Abort
    \/ RequestError
    \/ AbortError
    \/ \E statusCode \in StatusCodes, statusMessage \in StatusMessages, rawHeaders \in FlatHeaders :
            OnResponse(statusCode, statusMessage, rawHeaders)
    \/ \E data \in Chunks : OnData(data)
    \/ OnEnd
    \/ OnResponseError
    \/ SocketClose
    \/ \E withError \in BOOLEAN : ConsumerDestroy(withError)
    \/ ConsumerDrain

Next ==
    \/ \E d \in ExchangeDefinitions, signal \in Signals : SendRequest(d, signal)
    \/ Exchange

Spec == Init /\ [][Next]_vars

\* the transport reports an abort and closes a finished exchange's socket;
\* nothing makes the remote end answer, continue or finish
FairSpec == Spec /\ WF_vars(AbortError) /\ WF_vars(SocketClose)

\* only the call itself and the signal, over every request definition
SendNext ==
    \/ \E d \in RequestDefinitions, signal \in Signals : SendRequest(d, signal)
    \/ Abort

SendSpec == Init /\ [][SendNext]_vars

\* ------------------------------------------------------------- properties
EventTypes(s) == [ i \in DOMAIN s.buffer |-> s.buffer[i].type ]

Has(s, type) == \E i \in DOMAIN s.buffer : s.buffer[i].type = type

BodyParts(s) == SelectSeq(s.buffer, LAMBDA e : e.type = "response-body-part")

\* the consumer, not sendRequest, destroyed the stream
ConsumerDestroyed ==
    \/ resultsStream.state = "destroyed"
    \/ resultsStream.state = "errored" /\ resultsStream.errors = 0

\* no callback that could still push or destroy is pending
Settled == promise = "rejected" \/ response.state \in {"ended", "errored"}

\* the transport delivered 'response', 'data'*, 'end' with no error and no abort before the end
Successful ==
    /\ response.state = "ended"
    /\ reqErrorAt \in {"none", "afterEnd"}
    /\ abortedAt \in {"none", "afterEnd"}
    /\ ~ConsumerDestroyed

\* C1: a successful exchange pushed exactly request-start, one response-head,
\* the body parts, one response-end, in that order, and then ended the stream.
C1_EventOrdering ==
    Successful =>
        LET types == EventTypes(resultsStream)
            n == Len(types)
        IN  /\ n >= 3
            /\ types[1] = "request-start"
            /\ types[2] = "response-head"
            /\ \A i \in 3 .. (n - 1) : types[i] = "response-body-part"
            /\ types[n] = "response-end"
            /\ resultsStream.state \in {"ended", "closed"}

C1_Witness ==
    /\ Successful
    /\ Len(response.chunks) = MaxChunks
    /\ resultsStream.state = "closed"

\* C2: a signal raised before any response-head leads to a stream terminated
\* with an error, and no response-head is ever pushed to it.
C2_CancelBeforeHead ==
    /\ [](abortedAt = "beforeHead" => ~Has(resultsStream, "response-head"))
    /\ (abortedAt = "beforeHead") ~> (resultsStream.state = "errored" \/ ConsumerDestroyed)

C2_Witness ==
    /\ abortedAt = "beforeHead"
    /\ reqErrorAt = "beforeHead"
    /\ resultsStream.state = "errored"
    /\ resultsStream.errors = 1

\* C3: once response-end is pushed, sendRequest pushes nothing more and
\* surfaces no error, whatever the transport or the signal does later.
C3_NothingAfterEnd ==
    /\ [](Has(resultsStream, "response-end") => resultsStream.errors = 0)
    /\ [][Has(resultsStream, "response-end") =>
            /\ resultsStream'.buffer = resultsStream.buffer
            /\ resultsStream'.errors = resultsStream.errors]_vars

C3_Witness ==
    /\ Has(resultsStream, "response-end")
    /\ resultsStream.state = "ended"
    /\ reqErrorAt = "afterEnd"
    /\ abortedAt = "afterEnd"

\* C4: a signal raised at any phase before response-end aborts the connection
\* and leaves the stream destroyed with an error.
C4_CancelDestroysStream ==
    (abortedAt \in {"beforeHead", "afterHead"} /\ Settled /\ ~ConsumerDestroyed) =>
        /\ request.destroyed
        /\ resultsStream.state = "errored"

\* C5: after the signal is raised, no response-head, response-body-part or
\* response-end is pushed.
C5_NoEventAfterCancel ==
    [][abortSignal = "aborted" => resultsStream'.buffer = resultsStream.buffer]_vars

ErrorBeforeEnd ==
    \/ reqErrorAt \in {"beforeHead", "afterHead"}
    \/ abortedAt \in {"beforeHead", "afterHead"}
    \/ response.state = "errored"

\* C6: every transport error or cancellation before response-end is surfaced
\* exactly once by destroying the stream, and the request is sent once.
C6_ErrorSurfacedOnce ==
    /\ request.ended <= 1
    /\ resultsStream.errors <= 1
    /\ (ErrorBeforeEnd /\ Settled /\ ~ConsumerDestroyed) => resultsStream.errors = 1

\* C7: once the stream is destroyed with an error, later 'response', 'data'
\* and 'end' callbacks push nothing to it.
C7_NoEventAfterError ==
    [][resultsStream.state = "errored" => resultsStream'.buffer = resultsStream.buffer]_vars

C7_Witness ==
    /\ resultsStream.state = "errored"
    /\ response.state = "ended"
    /\ Len(response.chunks) > Len(BodyParts(resultsStream))
    /\ ~Has(resultsStream, "response-end")

ExitTaken ==
    \/ Settled
    \/ abortedAt # "none"
    \/ ConsumerDestroyed

\* C8: on every exit path (completion, request error, response error,
\* cancellation, the consumer destroying the stream) the connection is
\* eventually torn down.
C8_ConnectionTornDown == ExitTaken ~> request.destroyed

\* C9: the header block stored for the wire is definition.headers exactly.
C9_HeaderExactness ==
    pc = "sent" => /\ request.stored = 1
                   /\ request.header = requestDefn.headers

C9_Witness ==
    /\ pc = "sent"
    /\ requestDefn.method = "POST"
    /\ requestDefn.rawBody.bytes # <<>>
    /\ requestDefn.headers = << <<"X-A", "1">>, <<"X-A", "2">> >>
    /\ request.header = << <<"X-A", "1">>, <<"X-A", "2">> >>

\* C10: the TLS transport is used for an https URL, the plain one for http.
C10_TransportFromScheme ==
    pc # "idle" => transport = requestDefn.scheme

\* C12: each chunk delivered after the head is pushed as one body part with
\* the chunk's bytes: the rawBody values are the delivered chunks, in order.
C12_BodyFidelity ==
    ~ConsumerDestroyed =>
        LET parts == BodyParts(resultsStream)
        IN  [ i \in 1 .. Len(parts) |-> parts[i].rawBody ] = response.chunks

C12_Witness ==
    /\ ~ConsumerDestroyed
    /\ response.chunks = << "b", "a" >>
    /\ Len(BodyParts(resultsStream)) = 2
    /\ response.state = "ended"

\* C13: whatever happens to the exchange, exactly one request-start is
\* pushed, by the call itself before any callback, as the first event.
C13_RequestStartFirst ==
    /\ [](pc = "sent" =>
            /\ Len(resultsStream.buffer) >= 1
            /\ resultsStream.buffer[1].type = "request-start"
            /\ Cardinality({ i \in DOMAIN resultsStream.buffer :
                                resultsStream.buffer[i].type = "request-start" }) = 1)
    /\ [][(pc = "idle" /\ pc' = "sent") => resultsStream'.buffer = << RequestStart >>]_vars

C13_Witness ==
    /\ pc = "sent"
    /\ abortedAt = "beforeHead"
    /\ promise = "rejected"
    /\ resultsStream.state = "errored"
    /\ resultsStream.buffer = << RequestStart >>

\* C14: the request is ended once, after its header block is stored, with
\* rawBody when it is present and not empty and with no body otherwise.
C14_BodyWritten ==
    pc = "sent" =>
        LET hasBody == requestDefn.rawBody.present /\ Len(requestDefn.rawBody.bytes) > 0
        IN  /\ request.ended = 1
            /\ request.calls =
                  << "_storeHeader", IF hasBody THEN "end(rawBody)" ELSE "end()" >>
            /\ request.body = IF hasBody THEN requestDefn.rawBody.bytes ELSE <<>>

C14_Witness ==
    /\ pc = "sent"
    /\ requestDefn.rawBody.bytes = << 7 >>
    /\ request.body = << 7 >>
    /\ request.calls = << "_storeHeader", "end(rawBody)" >>

\* C15: the response head is pushed once, with the response's status code and
\* message and its raw headers grouped two by two in the order received.
C15_ResponseHead ==
    LET heads == SelectSeq(resultsStream.buffer, LAMBDA e : e.type = "response-head")
        raw == response.rawHeaders
    IN  /\ Len(heads) <= 1
        /\ (response.state # "none" /\ ~ConsumerDestroyed) =>
                /\ Len(heads) = 1
                /\ heads[1].statusCode = response.statusCode
                /\ heads[1].statusMessage = response.statusMessage
                /\ 2 * Len(heads[1].headers) = Len(raw)
                /\ \A i \in DOMAIN heads[1].headers :
                        heads[1].headers[i] = << raw[2 * i - 1], raw[2 * i] >>

C15_Witness ==
    /\ ~ConsumerDestroyed
    /\ response.statusCode = 404
    /\ response.rawHeaders = << "A", "1", "a", "2" >>
    /\ Has(resultsStream, "response-head")
    /\ requestDefn.headers = << <<"X-A", "1">> >>

\* C11: pairing the flattened form of any header list gives the list back.
C11_RoundTrip ==
    "pairFlattened" \in codec.done => codec.repaired = codec.headers

C11_Witness ==
    /\ "pairFlattened" \in codec.done
    /\ codec.headers = << <<"X-A", "1">>, <<"X-A", "">> >>
    /\ codec.repaired = << <<"X-A", "1">>, <<"X-A", "">> >>

\* C16: pairing does not validate: 2n strings give n pairs (flat[2i],
\* flat[2i+1]); 2n+1 strings give those n pairs, then one entry holding the
\* last string as key and no value.
C16_PairShape ==
    "pair" \in codec.done =>
        LET f == codec.flat
            r == codec.paired
            n == Len(f) \div 2
        IN  /\ Len(r) = n + (Len(f) % 2)
            /\ \A i \in 1 .. n : r[i] = << f[2 * i - 1], f[2 * i] >>
            /\ Len(f) % 2 = 1 => r[n + 1] = << f[Len(f)], Undefined >>

C16_Witness ==
    /\ "pair" \in codec.done
    /\ Len(codec.flat) = 3
    /\ Len(codec.paired) = 2
    /\ codec.paired[2][2] = Undefined

\* C17: flattening the paired form of an even-length flat list gives it
\* back, and the flat form of n pairs has key i at 2i and value i at 2i+1.
C17_FlattenInverse ==
    /\ ("flattenPaired" \in codec.done /\ Len(codec.flat) % 2 = 0) =>
            codec.reflattened = codec.flat
    /\ "flatten" \in codec.done =>
            /\ Len(codec.flattened) = 2 * Len(codec.headers)
            /\ \A i \in DOMAIN codec.headers :
                    /\ codec.flattened[2 * i - 1] = codec.headers[i][1]
                    /\ codec.flattened[2 * i] = codec.headers[i][2]

C17_Witness ==
    /\ "flattenPaired" \in codec.done
    /\ "flatten" \in codec.done
    /\ codec.flat = << "x-a", "" >>
    /\ codec.reflattened = codec.flat
    /\ Len(codec.headers) = MaxHeaders

\* C18: whatever the interleaving of activate calls, at most one browser
\* launched for a port is running, and a running browser that was registered
\* is the one the registry holds for its port.
C18_OneBrowserPerPort ==
    /\ \A port \in Ports :
          Cardinality({ b \in DOMAIN processes :
                          processes[b].port = port /\ Running(processes, b) }) <= 1
    /\ \A b \in DOMAIN processes :
          (Running(processes, b) /\ processes[b].registered # 0) =>
              browsers[processes[b].port] = b

\* the browser last registered for a port
LastRegistered(port) ==
    { b \in DOMAIN processes :
        /\ processes[b].port = port
        /\ processes[b].registered # 0
        /\ \A c \in DOMAIN processes :
              processes[c].port = port => processes[c].registered <= processes[b].registered }

\* C19: an entry of the registry is a browser whose process has not exited,
\* only that browser's own exit removes it, and isActive(port) holds exactly
\* when the browser last registered for the port is still running.
C19_RegistryLive ==
    /\ [](\A port \in Ports :
            /\ browsers[port] # 0 => Running(processes, browsers[port])
            /\ isActive(port) <=> \E b \in LastRegistered(port) : Running(processes, b))
    /\ [][\A port \in Ports :
            (browsers[port] # 0 /\ Running(processes, browsers[port])
                /\ browsers'[port] # browsers[port])
            => processes'[browsers[port]].state = "exited"]_vars

\* C20: given that a stopped browser exits, every deactivate call resolves,
\* with the port inactive when it does; for an inactive port it resolves
\* without stopping a browser or touching the registry.
C20_DeactivateResolves ==
    /\ \A i \in 1 .. MaxDeactivations :
          (i \in DOMAIN deactivations) ~>
              (i \in DOMAIN deactivations /\ deactivations[i].pc = "resolved")
    /\ [](\A i \in DOMAIN deactivations :
            deactivations[i].pc = "resolved" => ~deactivations[i].activeAtResolve)
    /\ [][\A i \in DOMAIN deactivations' :
            (i \notin DOMAIN deactivations /\ deactivations'[i].pc = "resolved")
            => (processes' = processes /\ browsers' = browsers)]_vars

====
